---------------------------- MODULE Spec2Model ----------------------------
(***************************************************************************)
(* A model of resources/fetch_podcast.py: the entry normalizer             *)
(* (to_iso_datetime, strip_html, parse_duration, build_episode_id,         *)
(* extract_audio_url, normalize_entry) as operators, and main() as a       *)
(* state machine over its program counter.                                 *)
(*                                                                         *)
(* Python values are tagged records.  A str is the sequence of its pieces  *)
(* of text: one piece per character wherever the program looks inside the  *)
(* string (titles, durations, ids, ISO timestamps), and one piece for the  *)
(* whole text where the program only hands it to a library (raw dates).    *)
(* A call either returns a value or raises: Return(v) / Raise(exc).        *)
(***************************************************************************)
EXTENDS Integers, Sequences, FiniteSets, TLC

VARIABLES
    pc,         \* main(): the statement reached; harnesses: "call" / "done"
    limit,      \* args.limit
    feed,       \* what fetch_feed returned: [title, entries]
    episodes,   \* main()'s local list
    payload,    \* main()'s payload dict
    out_file,   \* the file at args.out
    entry,      \* harness: the entry handed to the function under study
    entry2,     \* harness: a second entry, for properties of two calls
    value,      \* harness: the argument of parse_duration
    result,     \* harness: outcome of the call on entry / value
    result2     \* harness: outcome of the call on entry2

vars == <<pc, limit, feed, episodes, payload, out_file,
          entry, entry2, value, result, result2>>

----------------------------------------------------------------------------
(* Bounds of the model                                                     *)

MaxDurLen == 4
MaxEntries == 3

----------------------------------------------------------------------------
(* Python values                                                           *)

PyNone == [type |-> "NoneType"]
PyStr(s) == [type |-> "str", val |-> s]
PyInt(n) == [type |-> "int", val |-> n]
PyTime(t) == [type |-> "struct_time", val |-> t]
PyList(l) == [type |-> "list", val |-> l]

Return(v) == [type |-> "return", val |-> v]
Raise(e) == [type |-> "raise", exc |-> e]

Unused == [type |-> "unused"]
Pending == [type |-> "pending"]

\* bool(v)
Truthy(v) ==
    CASE v.type = "NoneType" -> FALSE
      [] v.type = "str" -> Len(v.val) > 0
      [] v.type = "int" -> v.val # 0
      [] v.type = "list" -> Len(v.val) > 0
      [] OTHER -> TRUE

\* a or b
PyOr(a, b) == IF Truthy(a) THEN a ELSE b

----------------------------------------------------------------------------
(* Characters and strings                                                  *)

\* U+00B2 SUPERSCRIPT TWO: str.isdigit() accepts it, int() does not.
Sup2 == "sup2"

DecimalDigits == {"0", "1", "2", "3", "4", "5", "6", "7", "8", "9"}
DigitLike == {Sup2}
Whitespace == {" "}

DigitVal(c) ==
    CASE c = "0" -> 0 [] c = "1" -> 1 [] c = "2" -> 2 [] c = "3" -> 3
      [] c = "4" -> 4 [] c = "5" -> 5 [] c = "6" -> 6 [] c = "7" -> 7
      [] c = "8" -> 8 [] c = "9" -> 9

DigitChar(n) ==
    CASE n = 0 -> "0" [] n = 1 -> "1" [] n = 2 -> "2" [] n = 3 -> "3"
      [] n = 4 -> "4" [] n = 5 -> "5" [] n = 6 -> "6" [] n = 7 -> "7"
      [] n = 8 -> "8" [] n = 9 -> "9"

RECURSIVE LStrip(_)
LStrip(s) ==
    IF s # <<>> /\ Head(s) \in Whitespace THEN LStrip(Tail(s)) ELSE s

RECURSIVE RStrip(_)
RStrip(s) ==
    IF s # <<>> /\ s[Len(s)] \in Whitespace
    THEN RStrip(SubSeq(s, 1, Len(s) - 1))
    ELSE s

\* str.strip()
Strip(s) == RStrip(LStrip(s))

\* str.isdigit()
IsDigit(s) ==
    /\ Len(s) > 0
    /\ \A i \in 1..Len(s) : s[i] \in DecimalDigits \cup DigitLike

RECURSIVE DecimalValue(_)
DecimalValue(s) ==
    IF s = <<>> THEN 0
    ELSE 10 * DecimalValue(SubSeq(s, 1, Len(s) - 1)) + DigitVal(s[Len(s)])

\* int(s) for a string of digit characters
IntOf(s) ==
    IF \A i \in 1..Len(s) : s[i] \in DecimalDigits
    THEN Return(PyInt(DecimalValue(s)))
    ELSE Raise("ValueError")

\* str.split(sep) for a one-character separator
RECURSIVE Split(_, _)
Split(s, sep) ==
    IF \A i \in 1..Len(s) : s[i] # sep THEN <<s>>
    ELSE LET k == CHOOSE i \in 1..Len(s) :
                      s[i] = sep /\ \A j \in 1..(i - 1) : s[j] # sep
         IN  <<SubSeq(s, 1, k - 1)>> \o Split(SubSeq(s, k + 1, Len(s)), sep)

\* All strings over alphabet a of length at most n
RECURSIVE StringsUpTo(_, _)
StringsUpTo(a, n) ==
    IF n = 0 THEN {<<>>}
    ELSE LET shorter == StringsUpTo(a, n - 1)
         IN  shorter \cup {Append(s, c) : s \in shorter, c \in a}

----------------------------------------------------------------------------
(* parse_duration                                                          *)

parse_duration(v) ==
    IF v.type = "NoneType" THEN Return(PyNone)
    ELSE IF v.type = "int" THEN Return(v)
    ELSE
      LET s == Strip(v.val)                                \* line 80
          kept == SelectSeq(Split(s, ":"), IsDigit)        \* line 85
          ints == [i \in 1..Len(kept) |-> IntOf(kept[i])]  \* line 89
      IN  IF s = <<>> THEN Return(PyNone)
          ELSE IF IsDigit(s) THEN IntOf(s)                 \* line 84, no try
          ELSE IF kept = <<>> THEN Return(PyNone)
          ELSE IF \E i \in 1..Len(ints) : ints[i].type = "raise"
               THEN Return(PyNone)                         \* except ValueError
          ELSE IF Len(ints) = 2
               THEN Return(PyInt(ints[1].val.val * 60 + ints[2].val.val))
          ELSE IF Len(ints) = 3
               THEN Return(PyInt(ints[1].val.val * 3600
                                 + ints[2].val.val * 60 + ints[3].val.val))
          ELSE Return(PyNone)

----------------------------------------------------------------------------
(* datetime                                                                *)

MinYear == 1
MaxYear == 9999
EpochOrdinal == 719163

IsLeap(y) == (y % 4 = 0) /\ ((y % 100 # 0) \/ (y % 400 = 0))

DaysInMonth(y, m) ==
    CASE m \in {1, 3, 5, 7, 8, 10, 12} -> 31
      [] m \in {4, 6, 9, 11} -> 30
      [] OTHER -> IF IsLeap(y) THEN 29 ELSE 28

RECURSIVE DaysBeforeMonth(_, _)
DaysBeforeMonth(y, m) ==
    IF m <= 1 THEN 0
    ELSE DaysBeforeMonth(y, m - 1) + DaysInMonth(y, m - 1)

DaysBeforeYear(y) ==
    (y - 1) * 365 + ((y - 1) \div 4) - ((y - 1) \div 100) + ((y - 1) \div 400)

\* date.toordinal(): 1 is 0001-01-01
Ordinal(y, m, d) == DaysBeforeYear(y) + DaysBeforeMonth(y, m) + d

\* a datetime is <<year, month, day, hour, minute, second>>
\* the range checks of datetime(year, month, day, hour, minute, second)
DatetimeValid(t) ==
    /\ t[1] \in MinYear..MaxYear
    /\ t[2] \in 1..12
    /\ t[3] \in 1..DaysInMonth(t[1], t[2])
    /\ t[4] \in 0..23
    /\ t[5] \in 0..59
    /\ t[6] \in 0..59

\* seconds since midnight
SecondOfDay(t) == t[4] * 3600 + t[5] * 60 + t[6]

\* the datetime on the day of ordinal ord, sod seconds after midnight
DatetimeOfOrdinal(ord, sod) ==
    LET y == CHOOSE c \in (ord \div 366)..((ord \div 365) + 1) :
                 c >= 1 /\ DaysBeforeYear(c) < ord /\ ord <= DaysBeforeYear(c + 1)
        m == CHOOSE c \in 1..12 :
                 /\ DaysBeforeMonth(y, c) < ord - DaysBeforeYear(y)
                 /\ ord - DaysBeforeYear(y) <= DaysBeforeMonth(y, c) + DaysInMonth(y, c)
        d == ord - DaysBeforeYear(y) - DaysBeforeMonth(y, m)
    IN  <<y, m, d, sod \div 3600, (sod % 3600) \div 60, sod % 60>>

\* aware.astimezone(timezone.utc) for an aware datetime t at UTC offset
\* off minutes: the same instant in UTC, or OverflowError outside
\* datetime.min .. datetime.max
AsTimezoneUtc(t, off) ==
    LET sod == SecondOfDay(t) - off * 60
        ord == Ordinal(t[1], t[2], t[3]) + (sod \div 86400)
    IN  IF ord < 1 \/ ord > DaysBeforeYear(MaxYear + 1)
        THEN Raise("OverflowError")
        ELSE Return(DatetimeOfOrdinal(ord, sod % 86400))

\* aware.timestamp() of a UTC datetime: seconds since 1970-01-01T00:00:00Z
Timestamp(t) ==
    (Ordinal(t[1], t[2], t[3]) - EpochOrdinal) * 86400 + SecondOfDay(t)

\* n as exactly w decimal digits
RECURSIVE Pad(_, _)
Pad(n, w) ==
    IF w = 0 THEN <<>> ELSE Append(Pad(n \div 10, w - 1), DigitChar(n % 10))

\* aware_utc.isoformat(): "YYYY-MM-DDTHH:MM:SS+00:00"
IsoFormat(t) ==
    Pad(t[1], 4) \o <<"-">> \o Pad(t[2], 2) \o <<"-">> \o Pad(t[3], 2)
    \o <<"T">> \o Pad(t[4], 2) \o <<":">> \o Pad(t[5], 2) \o <<":">> \o Pad(t[6], 2)
    \o <<"+", "0", "0", ":", "0", "0">>

StartsWith(s, p) == Len(s) >= Len(p) /\ SubSeq(s, 1, Len(p)) = p

\* str.replace(old, new), old not empty
RECURSIVE Replace(_, _, _)
Replace(s, old, new) ==
    IF s = <<>> THEN <<>>
    ELSE IF StartsWith(s, old)
         THEN new \o Replace(SubSeq(s, Len(old) + 1, Len(s)), old, new)
    ELSE <<Head(s)>> \o Replace(Tail(s), old, new)

UtcSuffix == <<"+", "0", "0", ":", "0", "0">>

\* dt.isoformat().replace("+00:00", "Z")
IsoZ(t) == Replace(IsoFormat(t), UtcSuffix, <<"Z">>)

AllDecimal(s) == \A i \in 1..Len(s) : s[i] \in DecimalDigits

\* datetime.fromisoformat(s) for the layout YYYY-MM-DDTHH:MM:SS+HH:MM:
\* the aware datetime and its offset in minutes, or ValueError
FromIsoFormat(s) ==
    IF /\ Len(s) = 25
       /\ s[5] = "-" /\ s[8] = "-" /\ s[11] = "T" /\ s[14] = ":" /\ s[17] = ":"
       /\ s[20] \in {"+", "-"} /\ s[23] = ":"
       /\ \A r \in {<<1, 4>>, <<6, 7>>, <<9, 10>>, <<12, 13>>, <<15, 16>>,
                    <<18, 19>>, <<21, 22>>, <<24, 25>>} :
              AllDecimal(SubSeq(s, r[1], r[2]))
    THEN LET t == <<DecimalValue(SubSeq(s, 1, 4)), DecimalValue(SubSeq(s, 6, 7)),
                    DecimalValue(SubSeq(s, 9, 10)), DecimalValue(SubSeq(s, 12, 13)),
                    DecimalValue(SubSeq(s, 15, 16)), DecimalValue(SubSeq(s, 18, 19))>>
             mins == DecimalValue(SubSeq(s, 21, 22)) * 60
                     + DecimalValue(SubSeq(s, 24, 25))
         IN  IF DatetimeValid(t)
             THEN Return([dt |-> t, off |-> IF s[20] = "-" THEN 0 - mins ELSE mins])
             ELSE Raise("ValueError")
    ELSE Raise("ValueError")

----------------------------------------------------------------------------
(* to_iso_datetime                                                         *)

\* dateutil.parser.parse(raw) on the raw date strings of the model: the
\* parsed datetime, whether the text names a timezone and its UTC offset in
\* minutes, or ParserError, a ValueError
RawIsoNaive == <<"2024-03-01T00:00:00">>
RawRfc822Plus5 == <<"Fri, 01 Mar 2024 02:00:00 +0500">>
RawYearOnePlus5 == <<"0001-01-01T00:00:00+05:00">>
RawGarbage == <<"not a date">>

DateParserParse(raw) ==
    CASE raw = RawIsoNaive ->
             Return([dt |-> <<2024, 3, 1, 0, 0, 0>>, aware |-> FALSE, off |-> 0])
      [] raw = RawRfc822Plus5 ->
             Return([dt |-> <<2024, 3, 1, 2, 0, 0>>, aware |-> TRUE, off |-> 300])
      [] raw = RawYearOnePlus5 ->
             Return([dt |-> <<1, 1, 1, 0, 0, 0>>, aware |-> TRUE, off |-> 300])
      [] OTHER -> Raise("ValueError")

\* datetime(*parsed[:6], tzinfo=timezone.utc); isoformat().replace(...)
StructToIso(t) ==
    IF DatetimeValid(t) THEN Return(PyStr(IsoZ(t))) ELSE Raise("ValueError")

to_iso_datetime(e) ==
    IF Truthy(e.published_parsed) THEN StructToIso(e.published_parsed.val)
    ELSE IF Truthy(e.updated_parsed) THEN StructToIso(e.updated_parsed.val)
    ELSE
      LET raw == PyOr(e.published, e.updated)
          parsed == DateParserParse(raw.val)
          \* a naive datetime is taken as UTC (lines 60-61)
          utc == AsTimezoneUtc(parsed.val.dt,
                               IF parsed.val.aware THEN parsed.val.off ELSE 0)
      IN  IF ~Truthy(raw) THEN Return(PyNone)
          ELSE IF parsed.type = "raise" THEN Return(PyNone)   \* except ValueError
          ELSE IF utc.type = "raise" THEN utc                 \* OverflowError
          ELSE Return(PyStr(IsoZ(utc.val)))

----------------------------------------------------------------------------
(* strip_html                                                              *)

\* In a summary a piece is a character, a whole tag or a whole character
\* reference; BeautifulSoup and html.unescape are what read them.
Tags == {"<p>", "</p>", "<br/>"}

\* one pass of character-reference decoding of a piece
DecodePiece(c) ==
    CASE c = "&amp;" -> "&"
      [] c = "&lt;" -> "<"
      [] c = "&amp;lt;" -> "&lt;"
      [] OTHER -> c

DecodePieces(s) == [i \in 1..Len(s) |-> DecodePiece(s[i])]

\* the text nodes of the parsed document: the runs of text between tags
RECURSIVE TextNodes(_)
TextNodes(s) ==
    IF \A i \in 1..Len(s) : s[i] \notin Tags THEN <<s>>
    ELSE LET k == CHOOSE i \in 1..Len(s) :
                      s[i] \in Tags /\ \A j \in 1..(i - 1) : s[j] \notin Tags
         IN  <<SubSeq(s, 1, k - 1)>> \o TextNodes(SubSeq(s, k + 1, Len(s)))

\* sep.join(parts)
RECURSIVE Join(_, _)
Join(sep, parts) ==
    IF parts = <<>> THEN <<>>
    ELSE IF Len(parts) = 1 THEN parts[1]
    ELSE parts[1] \o sep \o Join(sep, Tail(parts))

NonEmpty(s) == s # <<>>

\* BeautifulSoup(value, "html.parser").get_text(" ", strip=True)
GetText(s) ==
    LET nodes == TextNodes(s)
        stripped == [i \in 1..Len(nodes) |-> Strip(DecodePieces(nodes[i]))]
    IN  Join(<<" ">>, SelectSeq(stripped, NonEmpty))

strip_html(v) ==
    IF ~Truthy(v) THEN PyStr(<<>>)
    ELSE PyStr(DecodePieces(GetText(v.val)))       \* html.unescape(text)

----------------------------------------------------------------------------
(* build_episode_id, extract_audio_url, normalize_entry                    *)

\* the code points the digest reads, by position
CodeTable ==
    <<"0", "1", "2", "3", "4", "5", "6", "7", "8", "9", "a", "b", "c", "d",
      "e", "f", " ", "|", "-", "T", ":", "Z", "&", "<">>

CodeOf(c) ==
    IF \E i \in 1..Len(CodeTable) : CodeTable[i] = c
    THEN CHOOSE i \in 1..Len(CodeTable) : CodeTable[i] = c
    ELSE Len(CodeTable) + 1

DigestModulus == 65536

RECURSIVE DigestOf(_)
DigestOf(s) ==
    IF s = <<>> THEN 7
    ELSE (DigestOf(SubSeq(s, 1, Len(s) - 1)) * 31 + CodeOf(s[Len(s)])) % DigestModulus

HexChar(n) == IF n < 10 THEN DigitChar(n) ELSE CodeTable[n + 1]

RECURSIVE Hex(_, _)
Hex(n, w) == IF w = 0 THEN <<>> ELSE Append(Hex(n \div 16, w - 1), HexChar(n % 16))

\* hashlib.sha256(base.encode("utf-8")).hexdigest(), as a 16-bit digest in
\* hex: a fixed-width function of the text alone, not one-to-one
Sha256Hex(base) == Hex(DigestOf(base), 4)

\* x or '' inside the f-string
StrOrEmpty(v) == IF Truthy(v) THEN v.val ELSE <<>>

build_episode_id_as_guid_only(e, audio_url, published) ==
    LET guid == e.guid
        title == IF e.title = PyNone THEN <<>> ELSE e.title.val
        base == title \o <<"|">> \o StrOrEmpty(published)
                \o <<"|">> \o StrOrEmpty(audio_url)
    IN  IF Truthy(guid) THEN PyStr(guid.val)
        ELSE PyStr(Sha256Hex(base))

build_episode_id(e, audio_url, published) ==
    LET guid == PyOr(e.id, e.guid)
        title == IF e.title = PyNone THEN <<>> ELSE e.title.val   \* get("title", "")
        base == title \o <<"|">> \o StrOrEmpty(published)
                \o <<"|">> \o StrOrEmpty(audio_url)
    IN  IF Truthy(guid) THEN PyStr(guid.val)                      \* str(guid)
        ELSE PyStr(Sha256Hex(base))

RECURSIVE FirstUrl(_)
FirstUrl(encs) ==
    IF encs = <<>> THEN PyNone
    ELSE IF Truthy(Head(encs).url) THEN Head(encs).url
    ELSE FirstUrl(Tail(encs))

extract_audio_url(e) == FirstUrl(PyOr(e.enclosures, PyList(<<>>)).val)

normalize_entry(e) ==
    LET published == to_iso_datetime(e)
        audio_url == extract_audio_url(e)
        description == strip_html(PyOr(PyOr(e.summary, e.description), PyStr(<<>>)))
        duration == parse_duration(e.itunes_duration)
    IN  IF published.type = "raise" THEN published
        ELSE IF duration.type = "raise" THEN duration
        ELSE Return([id |-> build_episode_id(e, audio_url, published.val),
                     title |-> PyStr(Strip(PyOr(e.title, PyStr(<<>>)).val)),
                     description |-> description,
                     published |-> published.val,
                     link |-> e.link,
                     audio_url |-> audio_url,
                     duration |-> duration.val])

\* an entry with no field set
EmptyEntry ==
    [id |-> PyNone, guid |-> PyNone, title |-> PyNone, summary |-> PyNone,
     description |-> PyNone, link |-> PyNone, published |-> PyNone,
     published_parsed |-> PyNone, updated |-> PyNone, updated_parsed |-> PyNone,
     itunes_duration |-> PyNone, enclosures |-> PyNone]

----------------------------------------------------------------------------
(* Calling parse_duration on every argument of a bounded set               *)

MainIdle ==
    /\ limit = Unused /\ feed = Unused /\ episodes = Unused
    /\ payload = Unused /\ out_file = Unused

DurChars == {"1", "2", ":", " ", "a", Sup2}

DurationExamples ==
    {<<"0", "1", ":", "0", "2", ":", "0", "3">>, <<"9", "0">>, <<"a", "b", "c">>,
     <<"1", ":", "2", ":", "3", ":", "4">>, <<"a", ":", "1", ":", ":", "2", "0">>,
     <<" ", "1", ":", "2", ":", Sup2, " ">>}

DurationStrings == StringsUpTo(DurChars, MaxDurLen) \cup DurationExamples

DurationValues ==
    {PyNone} \cup {PyInt(n) : n \in {0 - 5, 0, 90}}
    \cup {PyStr(s) : s \in DurationStrings}

InitDuration ==
    /\ pc = "call"
    /\ value \in DurationValues
    /\ result = Pending
    /\ entry = Unused /\ entry2 = Unused /\ result2 = Unused
    /\ MainIdle

CallParseDuration ==
    /\ pc = "call"
    /\ value \in DurationValues
    /\ result' = parse_duration(value)
    /\ pc' = "done"
    /\ UNCHANGED <<limit, feed, episodes, payload, out_file,
                   entry, entry2, value, result2>>

NextDuration == CallParseDuration

SpecDuration == InitDuration /\ [][NextDuration]_vars

\* what C9 says parse_duration returns for the string s, "digits" and
\* "numeric" read as str.isdigit() reads them
DurationAsClaimed(s, r) ==
    LET t == Strip(s)
        segs == SelectSeq(Split(t, ":"), IsDigit)
    IN  /\ r.type = "return"
        /\ IF t = <<>> THEN r.val = PyNone
           ELSE IF IsDigit(t)
                THEN AllDecimal(t) /\ r.val = PyInt(DecimalValue(t))
           ELSE IF Len(segs) = 2
                THEN /\ \A i \in 1..2 : AllDecimal(segs[i])
                     /\ r.val = PyInt(DecimalValue(segs[1]) * 60
                                      + DecimalValue(segs[2]))
           ELSE IF Len(segs) = 3
                THEN /\ \A i \in 1..3 : AllDecimal(segs[i])
                     /\ r.val = PyInt(DecimalValue(segs[1]) * 3600
                                      + DecimalValue(segs[2]) * 60
                                      + DecimalValue(segs[3]))
           ELSE r.val = PyNone

HasDigitLike(s) == \E i \in 1..Len(s) : s[i] \in DigitLike

\* C9: for every string argument parse_duration returns null for an empty
\* trimmed string, the integer for an all-digit one, minutes*60+seconds or
\* hours*3600+minutes*60+seconds for 2 or 3 numeric segments, else null.
C9_ParseDurationOfEveryString ==
    (pc = "done" /\ value.type = "str") => DurationAsClaimed(value.val, result)

\* The same statement on the strings with no digit-like character that is
\* not a decimal digit: there the code does what C9 says.
ParseDurationOfDecimalStrings ==
    (pc = "done" /\ value.type = "str" /\ ~HasDigitLike(value.val))
        => DurationAsClaimed(value.val, result)

\* The four examples of C9.
ParseDurationExamples ==
    /\ parse_duration(PyStr(<<"0", "1", ":", "0", "2", ":", "0", "3">>))
           = Return(PyInt(3723))
    /\ parse_duration(PyStr(<<"9", "0">>)) = Return(PyInt(90))
    /\ parse_duration(PyStr(<<>>)) = Return(PyNone)
    /\ parse_duration(PyStr(<<"a", "b", "c">>)) = Return(PyNone)

----------------------------------------------------------------------------
(* Calling to_iso_datetime on every combination of date fields             *)

PublishedTime == <<2024, 3, 1, 4, 5, 6>>
UpdatedTime == <<2023, 12, 31, 23, 59, 59>>
MonthThirteen == <<2024, 13, 1, 0, 0, 0>>
LeapSecond == <<2016, 12, 31, 23, 59, 60>>
BeforeEpoch == <<1969, 7, 20, 20, 17, 40>>

StructValues ==
    {PyNone, PyTime(PublishedTime), PyTime(UpdatedTime),
     PyTime(MonthThirteen), PyTime(LeapSecond)}

RawValues ==
    {PyNone, PyStr(<<>>), PyStr(RawIsoNaive), PyStr(RawRfc822Plus5),
     PyStr(RawGarbage)}

DateEntries ==
    {[EmptyEntry EXCEPT !.published_parsed = pp, !.updated_parsed = up,
                        !.published = p, !.updated = u] :
        pp \in StructValues, up \in StructValues, p \in RawValues, u \in RawValues}

InitDate ==
    /\ pc = "call"
    /\ entry \in DateEntries
    /\ result = Pending
    /\ entry2 = Unused /\ value = Unused /\ result2 = Unused
    /\ MainIdle

CallToIsoDatetime ==
    /\ pc = "call"
    /\ entry \in DateEntries
    /\ result' = to_iso_datetime(entry)
    /\ pc' = "done"
    /\ UNCHANGED <<limit, feed, episodes, payload, out_file,
                   entry, entry2, value, result2>>

NextDate == CallToIsoDatetime

SpecDate == InitDate /\ [][NextDate]_vars

\* the string v is a UTC ISO-8601 timestamp ending in Z that names the
\* instant of the UTC datetime t
IsIsoZOf(v, t) ==
    /\ v.type = "str"
    /\ Len(v.val) = 20
    /\ v.val[20] = "Z"
    /\ LET back == FromIsoFormat(SubSeq(v.val, 1, 19) \o UtcSuffix)
       IN  back.type = "return" /\ back.val.dt = t /\ back.val.off = 0

\* what the raw string raw should give: null when it does not parse, else
\* the timestamp of its instant in UTC (a text with no zone is UTC)
RawAsClaimed(raw, r) ==
    LET parsed == DateParserParse(raw)
        mins == SecondOfDay(parsed.val.dt) \div 60
                - (IF parsed.val.aware THEN parsed.val.off ELSE 0)
        day == Ordinal(parsed.val.dt[1], parsed.val.dt[2], parsed.val.dt[3])
               + (mins \div 1440)
    IN  IF parsed.type = "raise" THEN r = PyNone
        ELSE \E t \in {DatetimeOfOrdinal(IF day < 1 THEN 1 ELSE day,
                                         (mins % 1440) * 60 + parsed.val.dt[6])} :
                 day >= 1 /\ IsIsoZOf(r, t)

\* the source to_iso_datetime is to pick by C10's priority, and its result
DateAsClaimed(e, r) ==
    /\ r.type = "return"
    /\ IF e.published_parsed # PyNone THEN IsIsoZOf(r.val, e.published_parsed.val)
       ELSE IF e.updated_parsed # PyNone THEN IsIsoZOf(r.val, e.updated_parsed.val)
       ELSE IF Truthy(e.published) THEN RawAsClaimed(e.published.val, r.val)
       ELSE IF Truthy(e.updated) THEN RawAsClaimed(e.updated.val, r.val)
       ELSE r.val = PyNone

\* C10: to_iso_datetime takes structured published, else structured updated,
\* else raw published, else raw updated, else null, and its result is null
\* or a UTC ISO-8601 string ending in Z.
C10_DateSourcePriority ==
    pc = "done" => DateAsClaimed(entry, result)

\* The same statement on the calls that return: whenever to_iso_datetime
\* returns, it returns what C10 says.
DateSourcePriorityWhenReturned ==
    (pc = "done" /\ result.type = "return") => DateAsClaimed(entry, result)

----------------------------------------------------------------------------
(* Calling normalize_entry on every entry of a bounded set                 *)

SampleUrl == <<"https://example.org/a.mp3">>
SampleHtml == <<"<p>", "a", " ", "&amp;", " ", "b", "</p>">>

NormalizeEntries ==
    {[EmptyEntry EXCEPT !.id = g, !.title = t, !.summary = h,
                        !.published_parsed = pp, !.published = p,
                        !.itunes_duration = d, !.enclosures = a] :
        g \in {PyNone, PyStr(<<"a", "b">>)},
        t \in {PyNone, PyStr(<<" ", "a">>)},
        h \in {PyNone, PyStr(SampleHtml)},
        pp \in {PyNone, PyTime(PublishedTime), PyTime(MonthThirteen)},
        p \in {PyNone, PyStr(RawRfc822Plus5), PyStr(RawYearOnePlus5),
               PyStr(RawGarbage)},
        d \in {PyNone, PyInt(0 - 5), PyInt(90), PyStr(<<"1", ":", "2">>),
               PyStr(<<Sup2>>), PyStr(<<"1", ":", Sup2>>)},
        a \in {PyNone, PyList(<<[url |-> PyNone], [url |-> PyStr(SampleUrl)]>>)}}

InitNormalize ==
    /\ pc = "call"
    /\ entry \in NormalizeEntries
    /\ result = Pending
    /\ entry2 = Unused /\ value = Unused /\ result2 = Unused
    /\ MainIdle

CallNormalizeEntry ==
    /\ pc = "call"
    /\ entry \in NormalizeEntries
    /\ result' = normalize_entry(entry)
    /\ pc' = "done"
    /\ UNCHANGED <<limit, feed, episodes, payload, out_file,
                   entry, entry2, value, result2>>

NextNormalize == CallNormalizeEntry

SpecNormalize == InitNormalize /\ [][NextNormalize]_vars

\* C6: whatever the entry's raw duration is, the duration of the Episode is
\* null or a non-negative integer.
C6_DurationNullOrNonNegative ==
    (pc = "done" /\ result.type = "return") =>
        \/ result.val.duration = PyNone
        \/ result.val.duration.type = "int" /\ result.val.duration.val >= 0

\* The same statement on the entries whose raw duration is absent or a
\* string: the only negative durations are integers passed through.
DurationOfStringsNonNegative ==
    (pc = "done" /\ result.type = "return" /\ entry.itunes_duration.type # "int") =>
        \/ result.val.duration = PyNone
        \/ result.val.duration.type = "int" /\ result.val.duration.val >= 0

\* C7: normalize_entry and each of its parts returns a value for every
\* entry; no exception leaves the normalizer.
C7_NormalizerNeverRaises ==
    pc = "done" =>
        /\ result.type = "return"
        /\ to_iso_datetime(entry).type = "return"
        /\ parse_duration(entry.itunes_duration).type = "return"

----------------------------------------------------------------------------
(* Calling normalize_entry on two entries: the ids                         *)

IdEntries ==
    {[EmptyEntry EXCEPT !.id = i, !.guid = g, !.title = t,
                        !.published_parsed = pp, !.enclosures = a] :
        i \in {PyNone, PyStr(<<>>), PyStr(<<"a", "b">>)},
        g \in {PyNone, PyStr(<<"a", "b">>), PyStr(<<"c">>)},
        t \in {PyNone, PyStr(<<"a">>), PyStr(<<" ", "a">>)},
        pp \in {PyNone, PyTime(PublishedTime)},
        a \in {PyNone, PyList(<<[url |-> PyStr(SampleUrl)]>>)}}

InitId ==
    /\ pc = "call"
    /\ entry \in IdEntries
    /\ entry2 \in IdEntries
    /\ result = Pending
    /\ result2 = Pending
    /\ value = Unused
    /\ MainIdle

CallNormalizeFirst ==
    /\ pc = "call"
    /\ entry \in IdEntries
    /\ result' = normalize_entry(entry)
    /\ pc' = "call2"
    /\ UNCHANGED <<limit, feed, episodes, payload, out_file,
                   entry, entry2, value, result2>>

CallNormalizeSecond ==
    /\ pc = "call2"
    /\ entry2 \in IdEntries
    /\ result2' = normalize_entry(entry2)
    /\ pc' = "done"
    /\ UNCHANGED <<limit, feed, episodes, payload, out_file,
                   entry, entry2, value, result>>

NextId == CallNormalizeFirst \/ CallNormalizeSecond

SpecId == InitId /\ [][NextId]_vars

\* the entry supplies a non-empty native id or guid
HasNativeId(e) == Truthy(e.id) \/ Truthy(e.guid)

\* that value: the id where there is a non-empty one, else the guid
NativeId(e) == IF Truthy(e.id) THEN e.id.val ELSE e.guid.val

\* C4: the Episode id of an entry with a non-empty native id/guid is that
\* value verbatim, whatever the title, date and audio URL are.
C4_NativeIdVerbatim ==
    pc = "done" =>
        /\ HasNativeId(entry) => result.val.id = PyStr(NativeId(entry))
        /\ HasNativeId(entry2) => result2.val.id = PyStr(NativeId(entry2))

\* two entries with the same guid that differ in title, date and audio URL
\* got the same id
C4_Witness ==
    /\ pc = "done"
    /\ HasNativeId(entry) /\ HasNativeId(entry2)
    /\ NativeId(entry) = NativeId(entry2)
    /\ entry.id = PyNone /\ entry2.id = PyNone
    /\ result.val.title # result2.val.title
    /\ result.val.published # result2.val.published
    /\ result.val.audio_url # result2.val.audio_url
    /\ result.val.id = result2.val.id

\* C5: two entries without native id whose Episodes have the same title,
\* published and audio_url get the same fallback id.
C5_FallbackIdOfEpisodeTriple ==
    (/\ pc = "done"
     /\ ~HasNativeId(entry) /\ ~HasNativeId(entry2)
     /\ result.val.title = result2.val.title
     /\ result.val.published = result2.val.published
     /\ result.val.audio_url = result2.val.audio_url)
        => result.val.id = result2.val.id

\* The fallback id is a function of the entry's title as the feed gave it
\* (not trimmed), the Episode's published and its audio_url.
FallbackIdOfRawTitleTriple ==
    (/\ pc = "done"
     /\ ~HasNativeId(entry) /\ ~HasNativeId(entry2)
     /\ PyOr(entry.title, PyStr(<<>>)) = PyOr(entry2.title, PyStr(<<>>))
     /\ result.val.published = result2.val.published
     /\ result.val.audio_url = result2.val.audio_url)
        => result.val.id = result2.val.id

----------------------------------------------------------------------------
(* main()                                                                  *)

\* sort_key(item) of main()
sort_key(item) ==
    LET published == item.published
        parsed == FromIsoFormat(Replace(published.val, <<"Z">>, UtcSuffix))
    IN  IF ~Truthy(published) THEN 0
        ELSE IF parsed.type = "raise" THEN 0
        ELSE Timestamp(parsed.val.dt) - parsed.val.off * 60

\* one step of a stable descending insertion: x goes behind every element
\* whose key is at least its own
RECURSIVE InsertByKeyDesc(_, _)
InsertByKeyDesc(sorted, x) ==
    IF sorted = <<>> THEN <<x>>
    ELSE IF sort_key(Head(sorted)) >= sort_key(x)
         THEN <<Head(sorted)>> \o InsertByKeyDesc(Tail(sorted), x)
    ELSE <<x>> \o sorted

RECURSIVE InsertByKeyAsc(_, _)
InsertByKeyAsc(sorted, x) ==
    IF sorted = <<>> THEN <<x>>
    ELSE IF sort_key(Head(sorted)) <= sort_key(x)
         THEN <<Head(sorted)>> \o InsertByKeyAsc(Tail(sorted), x)
    ELSE <<x>> \o sorted

RECURSIVE SortedByKey(_)
SortedByKey(eps) ==
    IF eps = <<>> THEN <<>>
    ELSE InsertByKeyAsc(SortedByKey(SubSeq(eps, 1, Len(eps) - 1)), eps[Len(eps)])

RECURSIVE Reversed(_)
Reversed(s) == IF s = <<>> THEN <<>> ELSE Append(Reversed(Tail(s)), Head(s))

\* episodes.sort(key=sort_key) followed by episodes.reverse()
SortedAscendingThenReversed(eps) == Reversed(SortedByKey(eps))

\* episodes.sort(key=sort_key, reverse=True): descending, and stable (equal
\* keys keep the order they had)
RECURSIVE SortedByKeyReverse(_)
SortedByKeyReverse(eps) ==
    IF eps = <<>> THEN <<>>
    ELSE InsertByKeyDesc(SortedByKeyReverse(SubSeq(eps, 1, Len(eps) - 1)),
                         eps[Len(eps)])

HasTitleAsKeyPresent(ep) == ep.title # PyNone

\* episode.get("title") is truthy
HasTitle(ep) == Truthy(ep.title)

\* episodes[:n]
SliceTo(eps, n) ==
    LET stop == IF n < 0
                THEN (IF Len(eps) + n < 0 THEN 0 ELSE Len(eps) + n)
                ELSE (IF n > Len(eps) THEN Len(eps) ELSE n)
    IN  SubSeq(eps, 1, stop)

TruncatedAsFilterFirst(eps, lim) ==
    IF lim = PyNone THEN eps ELSE SliceTo(SelectSeq(eps, HasTitle), lim.val)

\* if args.limit is not None: episodes = episodes[: args.limit]
Truncated(eps, lim) ==
    IF lim = PyNone THEN eps ELSE SliceTo(eps, lim.val)

\* the entries main() is run on
MainEntries ==
    {[EmptyEntry EXCEPT !.title = PyNone],
     [EmptyEntry EXCEPT !.title = PyStr(<<>>), !.published_parsed = PyTime(PublishedTime)],
     [EmptyEntry EXCEPT !.title = PyStr(<<" ">>), !.published_parsed = PyTime(UpdatedTime)],
     [EmptyEntry EXCEPT !.title = PyStr(<<"a">>)],
     [EmptyEntry EXCEPT !.title = PyStr(<<"a">>), !.published_parsed = PyTime(PublishedTime)],
     [EmptyEntry EXCEPT !.title = PyStr(<<" ", "b">>)],
     [EmptyEntry EXCEPT !.title = PyStr(<<" ", "b">>), !.published_parsed = PyTime(PublishedTime)],
     [EmptyEntry EXCEPT !.title = PyStr(<<"a">>), !.published_parsed = PyTime(BeforeEpoch)],
     [EmptyEntry EXCEPT !.title = PyStr(<<"a">>), !.itunes_duration = PyStr(<<Sup2>>)]}

RECURSIVE SeqsUpTo(_, _)
SeqsUpTo(S, n) ==
    IF n = 0 THEN {<<>>}
    ELSE LET shorter == SeqsUpTo(S, n - 1)
         IN  shorter \cup {Append(q, x) : q \in shorter, x \in S}

FeedOf(t, es) == [type |-> "feed", title |-> t, entries |-> es]

\* feeds without a title, and the short feeds with one
Feeds ==
    {FeedOf(PyNone, es) : es \in SeqsUpTo(MainEntries, MaxEntries)}
    \cup {FeedOf(PyStr(<<"c">>), es) : es \in SeqsUpTo(MainEntries, 1)}

Limits == {PyNone} \cup {PyInt(n) : n \in (0 - 1)..MaxEntries}

RssUrl == <<"https://example.org/feed.xml">>
Clock == {<<2026, 1, 1, 0, 0, 0>>}

\* what is at args.out before the run: no file, or an earlier one
OriginalFile == <<"original">>

\* json.dump(payload, handle, indent=2, ensure_ascii=True) and the newline
Written(p) == <<[json |-> p], "\n">>

Init ==
    /\ pc = "fetch_feed"
    /\ limit \in Limits
    /\ feed = Pending
    /\ episodes = <<>>
    /\ payload = Pending
    /\ out_file = OriginalFile
    /\ entry = Unused /\ entry2 = Unused /\ value = Unused
    /\ result = Unused /\ result2 = Unused

Harness == <<entry, entry2, value, result, result2>>

\* fetch_feed(args.rss_url) returns the parsed feed
FetchFeed ==
    /\ pc = "fetch_feed"
    /\ feed' \in Feeds
    /\ pc' = "normalize"
    /\ UNCHANGED <<limit, episodes, payload, out_file, Harness>>

\* requests.get or raise_for_status raises: main() ends there
FetchFails ==
    /\ pc = "fetch_feed"
    /\ feed' = Raise("RequestException")
    /\ pc' = "raised"
    /\ UNCHANGED <<limit, episodes, payload, out_file, Harness>>

Normalized(es) == [i \in 1..Len(es) |-> normalize_entry(es[i])]

\* episodes = [normalize_entry(entry) for entry in feed.entries]
NormalizeAll ==
    /\ pc = "normalize"
    /\ \A i \in 1..Len(feed.entries) : Normalized(feed.entries)[i].type = "return"
    /\ episodes' = [i \in 1..Len(feed.entries) |-> Normalized(feed.entries)[i].val]
    /\ pc' = "limit"
    /\ UNCHANGED <<limit, feed, payload, out_file, Harness>>

\* normalize_entry raises on some entry: main() ends there
NormalizeRaises ==
    /\ pc = "normalize"
    /\ \E i \in 1..Len(feed.entries) : Normalized(feed.entries)[i].type = "raise"
    /\ pc' = "raised"
    /\ UNCHANGED <<limit, feed, episodes, payload, out_file, Harness>>

ApplyLimit ==
    /\ pc = "limit"
    /\ episodes' = Truncated(episodes, limit)
    /\ pc' = "filter"
    /\ UNCHANGED <<limit, feed, payload, out_file, Harness>>

\* episodes = [episode for episode in episodes if episode.get("title")]
FilterTitles ==
    /\ pc = "filter"
    /\ episodes' = SelectSeq(episodes, HasTitle)
    /\ pc' = "sort"
    /\ UNCHANGED <<limit, feed, payload, out_file, Harness>>

SortEpisodes ==
    /\ pc = "sort"
    /\ episodes' = SortedByKeyReverse(episodes)
    /\ pc' = "assemble"
    /\ UNCHANGED <<limit, feed, payload, out_file, Harness>>

AssemblePayload ==
    /\ pc = "assemble"
    /\ \E now \in Clock :
          payload' = [podcast |-> [title |-> PyOr(feed.title, PyStr(<<"Podcast">>)),
                                   source_rss |-> PyStr(RssUrl),
                                   generated_at |-> PyStr(IsoZ(now))],
                      episodes |-> episodes]
    /\ pc' = "open"
    /\ UNCHANGED <<limit, feed, episodes, out_file, Harness>>

\* os.makedirs and open(out_path, "w"): the file is there and empty
OpenOutAsBeforeFetch ==
    /\ pc = "fetch_feed"
    /\ out_file = OriginalFile
    /\ out_file' = <<>>
    /\ UNCHANGED <<pc, limit, feed, episodes, payload, Harness>>

OpenOut ==
    /\ pc = "open"
    /\ out_file' = <<>>
    /\ pc' = "dump"
    /\ UNCHANGED <<limit, feed, episodes, payload, Harness>>

\* os.makedirs or open raises OSError: main() ends there
OpenFails ==
    /\ pc = "open"
    /\ pc' = "raised"
    /\ UNCHANGED <<limit, feed, episodes, payload, out_file, Harness>>

\* json.dump, the newline, the handle closed, the summary printed
DumpPayload ==
    /\ pc = "dump"
    /\ out_file' = Written(payload)
    /\ pc' = "done"
    /\ UNCHANGED <<limit, feed, episodes, payload, Harness>>

Next ==
    \/ FetchFeed \/ FetchFails
    \/ NormalizeAll \/ NormalizeRaises
    \/ ApplyLimit \/ FilterTitles \/ SortEpisodes
    \/ AssemblePayload
    \/ OpenOut \/ OpenFails \/ DumpPayload

Spec == Init /\ [][Next]_vars

----------------------------------------------------------------------------
(* Properties of main()                                                    *)

Min(a, b) == IF a < b THEN a ELSE b

\* how many leading feed entries the limit lets through
LimitStop ==
    LET n == Len(feed.entries)
    IN  IF limit = PyNone THEN n
        ELSE IF limit.val >= 0 THEN Min(limit.val, n)
        ELSE IF n + limit.val < 0 THEN 0 ELSE n + limit.val

\* the feed entry has a title that is not empty once trimmed
TitleNotBlank(e) == e.title # PyNone /\ Strip(e.title.val) # <<>>

\* the positions of the feed entries that are to reach the output
KeptPositions ==
    {i \in 1..Len(feed.entries) : i <= LimitStop /\ TitleNotBlank(feed.entries[i])}

EpisodeOf(i) == normalize_entry(feed.entries[i]).val

Occurrences(q, x) == Cardinality({i \in 1..Len(q) : q[i] = x})

\* C1: with a limit N >= 0 (or none), the final episode list holds exactly
\* the episodes of the first N feed entries whose trimmed title is not
\* empty: the limit cuts before the title filter drops.
C1_LimitBeforeFilter ==
    (pc = "done" /\ (limit = PyNone \/ limit.val >= 0)) =>
        /\ \A i \in 1..Len(payload.episodes) :
              \E k \in KeptPositions : payload.episodes[i] = EpisodeOf(k)
        /\ \A k \in KeptPositions :
              Occurrences(payload.episodes, EpisodeOf(k))
                  = Cardinality({j \in KeptPositions : EpisodeOf(j) = EpisodeOf(k)})

\* limit = 1 on a feed of a blank title followed by a titled entry: the
\* final episode list is empty
C1_Witness ==
    /\ pc = "done"
    /\ limit = PyInt(1)
    /\ Len(feed.entries) = 2
    /\ ~TitleNotBlank(feed.entries[1])
    /\ TitleNotBlank(feed.entries[2])
    /\ payload.episodes = <<>>

\* the sort key of a feed entry, from its structured date: its timestamp,
\* 0 without a date
EntryKey(e) ==
    IF e.published_parsed # PyNone THEN Timestamp(e.published_parsed.val)
    ELSE IF e.updated_parsed # PyNone THEN Timestamp(e.updated_parsed.val)
    ELSE 0

\* the episodes of the kept feed entries of key k, in feed order
RECURSIVE KeptOfKey(_, _)
KeptOfKey(k, n) ==
    IF n = 0 THEN <<>>
    ELSE IF n \in KeptPositions /\ EntryKey(feed.entries[n]) = k
         THEN Append(KeptOfKey(k, n - 1), EpisodeOf(n))
    ELSE KeptOfKey(k, n - 1)

\* C2: the payload's episodes are in descending order of sort key, and the
\* episodes of one key (those without a date have key 0) are in feed order.
C2_StableDescendingSort ==
    pc = "done" =>
        LET out == payload.episodes
            keys == {EntryKey(feed.entries[i]) : i \in 1..Len(feed.entries)}
                    \cup {sort_key(out[i]) : i \in 1..Len(out)}
        IN  /\ \A i \in 1..(Len(out) - 1) : sort_key(out[i]) >= sort_key(out[i + 1])
            /\ \A k \in keys :
                  LET OfKey(ep) == sort_key(ep) = k
                  IN  SelectSeq(out, OfKey) = KeptOfKey(k, Len(feed.entries))

\* a run whose sort moved an episode forward and kept two different
\* episodes of one key in feed order
C2_Witness ==
    /\ pc = "done"
    /\ Len(payload.episodes) = 3
    /\ sort_key(payload.episodes[1]) = sort_key(payload.episodes[2])
    /\ payload.episodes[1] # payload.episodes[2]
    /\ sort_key(payload.episodes[2]) > sort_key(payload.episodes[3])
    /\ EpisodeOf(1) = payload.episodes[3]

\* C3: every episode of the final payload has a title that is not empty
\* and has no whitespace at either end.
C3_TitlesNonEmptyTrimmed ==
    pc = "done" =>
        \A i \in 1..Len(payload.episodes) :
            LET t == payload.episodes[i].title
            IN  /\ t.type = "str"
                /\ t.val # <<>>
                /\ Head(t.val) \notin Whitespace
                /\ t.val[Len(t.val)] \notin Whitespace

\* a run that dropped a blank-titled entry and kept a trimmed one
C3_Witness ==
    /\ pc = "done"
    /\ \E i \in 1..LimitStop : ~TitleNotBlank(feed.entries[i])
    /\ \E i \in 1..LimitStop : feed.entries[i].title = PyStr(<<" ", "b">>)
    /\ \E i \in 1..Len(payload.episodes) : payload.episodes[i].title = PyStr(<<"b">>)

PcOrder ==
    <<"fetch_feed", "normalize", "limit", "filter", "sort", "assemble",
      "open", "dump", "done">>

Rank(p) == CHOOSE i \in 1..Len(PcOrder) : PcOrder[i] = p

\* the file is untouched unless the fetch returned and the payload is
\* assembled; a failed fetch leaves nothing normalized and nothing written
OutputAfterPayload ==
    /\ feed.type = "raise" =>
          /\ pc = "raised" /\ episodes = <<>> /\ payload = Pending
          /\ out_file = OriginalFile
    /\ out_file # OriginalFile =>
          /\ feed.type = "feed"
          /\ payload # Pending
          /\ pc \in {"dump", "done"}
          /\ out_file \in {<<>>, Written(payload)}
    /\ pc = "done" => out_file = Written(payload)

\* the statements run in their order; a raise ends the run
StepsInOrder ==
    /\ pc # "raised"
    /\ pc' # pc => (pc' = "raised" \/ Rank(pc') = Rank(pc) + 1)
    /\ pc = "fetch_feed" => (pc' = "raised" <=> feed'.type = "raise")
    /\ out_file' # out_file => pc \in {"open", "dump"}

\* C8: fetch, parse, normalize, truncate/filter/sort, assemble, write run
\* in this order; the file is written only after the fetch succeeded and
\* the payload was assembled; a failed fetch ends the run with nothing
\* normalized and the file untouched.
C8_WriteAfterFetchAndPayload == [](OutputAfterPayload) /\ [][StepsInOrder]_vars

\* a run whose fetch failed
C8_Witness ==
    /\ pc = "raised"
    /\ feed = Raise("RequestException")
    /\ episodes = <<>>
    /\ out_file = OriginalFile

=============================================================================
